---- MODULE Spec2Model ----
(***************************************************************************)
(* Model of the SP-API client core: the token cache (getAccessToken), the  *)
(* signing-credential resolver (getSTSCredentials, in both auth modules of *)
(* the repository), the per-category rate limiter (checkRateLimit), the    *)
(* request executor (spApiRequest) and validateCredentials.                *)
(*                                                                         *)
(* Time is in milliseconds.  JavaScript runs one synchronous segment at a  *)
(* time, so each action is the code between two awaits of one caller.      *)
(***************************************************************************)
EXTENDS Integers, Sequences, FiniteSets, TLC

VARIABLES
    now,                \* Date.now()
    authModule,         \* which auth module './auth' resolves to
    env,                \* process.env
    cachedToken,        \* auth.ts: let cachedToken
    requestTimestamps,  \* utils.ts: const requestTimestamps
    pc,                 \* per caller: position inside spApiRequest
    call,               \* per caller: locals of the running spApiRequest
    result,             \* per caller: the envelope being returned
    calls,              \* number of spApiRequest calls started so far
    proceeded,          \* history: per apiType, times checkRateLimit returned
    last,               \* history: per caller, how the last call ended
    validation,         \* result of the last validateCredentials()
    route,              \* per caller: the route handler it runs, if any
    response,           \* per caller: the HTTP response of its route handler
    query               \* a params record, and what buildQueryString made of it

vars == <<now, authModule, env, query, cachedToken, requestTimestamps, pc, call,
          result, calls, proceeded, last, validation, route, response>>

-----------------------------------------------------------------------------
(* Bounds of the model *)

MaxTicks == 4
MaxCalls == 3
MaxRateCalls == 4
MaxRouteTicks == 9
MaxRouteCalls == 2
MaxDashboardTicks == 3
MaxDashboardCalls == 4
MaxParams == 3
MaxBuilds == 2
TickSteps == {500}
Callers == {"a", "b"}

-----------------------------------------------------------------------------
(* Values *)

Undefined == "undefined"
StatusUndefined == 0
NoToken == [accessToken |-> "null", expiresAt |-> 0, present |-> FALSE]

AuthModules == {"auth.ts", "part_007"}

PlaceholderArn == "arn:aws:iam::YOUR_ACCOUNT:role/YOUR_ROLE"
EnvKeys == {"LWA_CLIENT_ID", "LWA_CLIENT_SECRET", "REFRESH_TOKEN",
            "AWS_ACCESS_KEY_ID", "AWS_SECRET_ACCESS_KEY", "AWS_ROLE_ARN",
            "SELLER_ID", "MARKETPLACE_ID", "SP_API_ENDPOINT"}

\* JavaScript truthiness of a configuration value: unset and '' are falsy
Truthy(v) == v # Undefined /\ v # ""

-----------------------------------------------------------------------------
(* auth.ts / part_007: token cache *)

SafetyMargin == 60000

\* mutants of TokenValid: a wider margin; the boundary taken as valid
TokenValidWideMargin(tok, t) ==
    tok.present /\ tok.expiresAt > t + SafetyMargin + 1000
TokenValidInclusive(tok, t) == tok.present /\ tok.expiresAt >= t + SafetyMargin

\* if (cachedToken && cachedToken.expiresAt > Date.now() + 60000)
TokenValid(tok, t) == tok.present /\ tok.expiresAt > t + SafetyMargin

\* mutant of NewCacheEntry: an entry that has not expired is kept, the token
\* of a later exchange is dropped
NewCacheEntryKeepsFirst(accessToken, expiresIn, t) ==
    IF cachedToken.present /\ cachedToken.expiresAt > t
    THEN cachedToken
    ELSE [accessToken |-> accessToken, expiresAt |-> t + expiresIn * 1000,
          present |-> TRUE]

\* cachedToken = { accessToken, expiresAt: Date.now() + data.expires_in * 1000 }
NewCacheEntry(accessToken, expiresIn, t) ==
    [accessToken |-> accessToken, expiresAt |-> t + expiresIn * 1000,
     present |-> TRUE]

\* mutant of RefreshErrorMessage: the provider's body is left out
RefreshErrorMessageNoBody(body) == "Failed to refresh token"

\* throw new Error(`Failed to refresh token: ${error}`)
RefreshErrorMessage(body) == "Failed to refresh token: " \o body

\* the identity provider's answers to the refresh exchange: a token response,
\* a non-success status with an error body, a rejected fetch, or a success
\* status whose body response.json() cannot parse
TokenValues == {"Atza|1", "Atza|2"}
ExpiresInValues == {60, 61}
TokenOutcomes ==
    {[kind |-> "ok", accessToken |-> a, expiresIn |-> e, text |-> "token"] :
        a \in TokenValues, e \in ExpiresInValues}
    \cup {[kind |-> "status", accessToken |-> Undefined, expiresIn |-> 0,
           text |-> "{\"error\":\"invalid_grant\"}"],
          [kind |-> "throw", accessToken |-> Undefined, expiresIn |-> 0,
           text |-> "fetch failed"],
          [kind |-> "badjson", accessToken |-> Undefined, expiresIn |-> 0,
           text |-> "Unexpected token < in JSON"]}

\* the message of the error getAccessToken throws for a failed exchange
TokenFailureMessage(o) ==
    IF o.kind = "status" THEN RefreshErrorMessage(o.text) ELSE o.text

-----------------------------------------------------------------------------
(* auth.ts / part_007: signing credentials *)

NoCredentials ==
    [accessKeyId |-> Undefined, secretAccessKey |-> Undefined,
     sessionToken |-> Undefined]

\* auth.ts getSTSCredentials: the static key pair, or empty strings
StaticOrDummyCredentials(e) ==
    IF Truthy(e["AWS_ACCESS_KEY_ID"]) /\ Truthy(e["AWS_SECRET_ACCESS_KEY"])
    THEN [accessKeyId |-> e["AWS_ACCESS_KEY_ID"],
          secretAccessKey |-> e["AWS_SECRET_ACCESS_KEY"],
          sessionToken |-> Undefined]
    ELSE [accessKeyId |-> "", secretAccessKey |-> "",
          sessionToken |-> Undefined]

\* part_007 getSTSCredentials: the IAM user's key pair as configured
IamUserCredentials(e) ==
    [accessKeyId |-> e["AWS_ACCESS_KEY_ID"],
     secretAccessKey |-> e["AWS_SECRET_ACCESS_KEY"],
     sessionToken |-> Undefined]

\* part_007: if (!AWS_ROLE_ARN || AWS_ROLE_ARN === placeholder) use IAM user
UsesIamUserDirectly(e) ==
    ~Truthy(e["AWS_ROLE_ARN"]) \/ e["AWS_ROLE_ARN"] = PlaceholderArn

\* the answers of the AssumeRole exchange: a rejected fetch, a non-success
\* status, or a success status whose XML holds the three fields or none
StsOutcomes ==
    {[kind |-> "throw", accessKey |-> Undefined, secretKey |-> Undefined,
      session |-> Undefined],
     [kind |-> "status", accessKey |-> Undefined, secretKey |-> Undefined,
      session |-> Undefined],
     [kind |-> "ok", accessKey |-> "ASIA", secretKey |-> "stsSecret",
      session |-> "stsSession"],
     [kind |-> "ok", accessKey |-> Undefined, secretKey |-> Undefined,
      session |-> Undefined]}

\* part_007: accessKeyMatch?.[1] || process.env.AWS_ACCESS_KEY_ID! ...
AssumedRoleCredentials(o, e) ==
    [accessKeyId |-> IF Truthy(o.accessKey) THEN o.accessKey
                     ELSE e["AWS_ACCESS_KEY_ID"],
     secretAccessKey |-> IF Truthy(o.secretKey) THEN o.secretKey
                         ELSE e["AWS_SECRET_ACCESS_KEY"],
     sessionToken |-> o.session]

-----------------------------------------------------------------------------
(* utils.ts: rate limiter *)

\* RATE_LIMITS; requests is kept in units of 1/Scale because the reports
\* entry is the fraction 0.0167
Scale == 10000
RATE_LIMITS ==
    [default   |-> [requests |-> 10 * Scale, period |-> 1000],
     inventory |-> [requests |-> 2 * Scale,  period |-> 1000],
     orders    |-> [requests |-> 5 * Scale,  period |-> 1000],
     reports   |-> [requests |-> 167,        period |-> 1000]]

\* const limit = RATE_LIMITS[apiType] || RATE_LIMITS.default
LimitFor(apiType) ==
    IF apiType \in DOMAIN RATE_LIMITS THEN RATE_LIMITS[apiType]
    ELSE RATE_LIMITS["default"]

\* requestTimestamps[apiType].filter((ts) => now - ts < limit.period)
RemoveOld(log, t, period) == SelectSeq(log, LAMBDA ts : t - ts < period)

\* mutant of AtLimit: the limit is reached one request late
AtLimitOffByOne(log, limit) == Len(log) * Scale > limit.requests

\* if (requestTimestamps[apiType].length >= limit.requests)
AtLimit(log, limit) == Len(log) * Scale >= limit.requests

\* const waitTime = limit.period - (now - requestTimestamps[apiType][0])
WaitTime(log, t, period) == period - (t - log[1])

\* a path is kept as the pieces path.split('/') yields
PathInventory == <<"", "inventory", "v1", "summaries">>
PathFbaInventory == <<"", "fba", "inventory", "v1", "summaries">>
PathReports == <<"", "reports", "2021-06-30", "reports">>
Paths == {PathInventory, PathFbaInventory, PathReports}

\* the paths of the client operations the routes call
PathSellers == <<"", "sellers", "v1", "marketplaceParticipations">>
PathOrders == <<"", "orders", "v0", "orders">>
PathCatalog == <<"", "catalog", "2022-04-01", "items">>
PathFinances == <<"", "finances", "v0", "financialEvents">>
PathNotifications == <<"", "notifications", "v1", "destinations">>
PathFbaInbound == <<"", "fba", "inbound", "v0", "shipments">>

\* test-all: const tests = [...], by the path of each test's operation
TestAllPaths ==
    <<PathSellers, PathOrders, PathFbaInventory, PathCatalog, PathReports,
      PathFinances, PathNotifications, PathFbaInbound>>

\* mutant of ApiType: the piece before the leading slash is taken
ApiTypeFirstPiece(path) ==
    IF Len(path) >= 1 /\ path[1] # "" THEN path[1] ELSE "default"

\* const apiType = path.split('/')[1] || 'default'
ApiType(path) ==
    IF Len(path) >= 2 /\ path[2] # "" THEN path[2] ELSE "default"

\* the keys requestTimestamps can get: the first segment of each path, and
\* 'default' for a path without one
ApiTypes ==
    {p[2] : p \in Paths} \cup {TestAllPaths[i][2] : i \in 1..Len(TestAllPaths)}
        \cup {"default"}

-----------------------------------------------------------------------------
(* utils.ts: the executor's envelope *)

\* the target API's answers: a rejected fetch (no HTTP response) or a status
\* with a body text
BodyNotFound == "{\"errors\":[{\"message\":\"not found\"}]}"
BodyPayload == "{\"payload\":[]}"
BodyHtml == "<html>Bad Gateway</html>"
BodyTexts == {"", BodyNotFound, BodyPayload, BodyHtml}
Statuses == {200, 204, 404}
ApiOutcomes ==
    {[kind |-> "throw", status |-> StatusUndefined, text |-> "fetch failed"]}
    \cup {[kind |-> "response", status |-> st, text |-> b] :
            st \in Statuses, b \in BodyTexts}

\* JSON.parse(responseText) inside try/catch: the parsed value, or undefined
\* when the text is not JSON
ParseJson(text) ==
    IF text = BodyNotFound THEN "object{errors}"
    ELSE IF text = BodyPayload THEN "object{payload}"
    ELSE Undefined

\* mutant of ResponseOk: only 200 counts as a success
ResponseOkOnly200(status) == status = 200

\* response.ok
ResponseOk(status) == status >= 200 /\ status <= 299

NoResult ==
    [returned |-> FALSE, success |-> FALSE, data |-> Undefined,
     error |-> Undefined, statusCode |-> StatusUndefined]

\* mutant of CaughtEnvelope: a caught error reported as a 500 response
CaughtEnvelopeWithStatus(message) ==
    [returned |-> TRUE, success |-> FALSE, data |-> Undefined,
     error |-> message, statusCode |-> 500]

\* catch (error) { return { success: false, error: error.message } }
CaughtEnvelope(message) ==
    [returned |-> TRUE, success |-> FALSE, data |-> Undefined,
     error |-> message, statusCode |-> StatusUndefined]

\* mutant of ResponseEnvelope: the failure carries the status text, not the
\* body
ResponseEnvelopeStatusText(status, text) ==
    IF ~ResponseOk(status)
    THEN [returned |-> TRUE, success |-> FALSE, data |-> Undefined,
          error |-> "HTTP " \o ToString(status), statusCode |-> status]
    ELSE [returned |-> TRUE, success |-> TRUE, data |-> ParseJson(text),
          error |-> Undefined, statusCode |-> status]

\* mutant of ResponseEnvelope: the failure carries the body text even when it
\* is empty
ResponseEnvelopeRawText(status, text) ==
    IF ~ResponseOk(status)
    THEN [returned |-> TRUE, success |-> FALSE, data |-> Undefined,
          error |-> text, statusCode |-> status]
    ELSE [returned |-> TRUE, success |-> TRUE, data |-> ParseJson(text),
          error |-> Undefined, statusCode |-> status]

\* the two return statements after the response was read
ResponseEnvelope(status, text) ==
    IF ~ResponseOk(status)
    THEN [returned |-> TRUE, success |-> FALSE, data |-> Undefined,
          error |-> IF text # "" THEN text ELSE "HTTP " \o ToString(status),
          statusCode |-> status]
    ELSE [returned |-> TRUE, success |-> TRUE, data |-> ParseJson(text),
          error |-> Undefined, statusCode |-> status]

-----------------------------------------------------------------------------
(* State *)

\* no answer of the identity provider yet
NoAnswer ==
    [kind |-> "none", accessToken |-> Undefined, expiresIn |-> 0, text |-> ""]

\* the locals of a running spApiRequest; tokenExpiresAt is the expiry of the
\* token in accessToken, steps the calls made so far in their order, headers
\* the names of the headers given to fetch, idp the identity provider's
\* answer to the call's last exchange, sts the kind of answer of its
\* AssumeRole exchange
NoCall ==
    [path |-> <<>>, accessToken |-> Undefined, tokenExpiresAt |-> 0,
     credentials |-> NoCredentials,
     enteredAt |-> 0, wakeAt |-> 0, waited |-> FALSE,
     tokenFetches |-> 0, stsFetches |-> 0, apiFetches |-> 0,
     steps |-> <<>>, headers |-> {}, idp |-> NoAnswer, sts |-> "none"]

\* history of a caller's last finished call: what ended it (the upstream
\* answer or the failed step) and the requests the call had issued
NoLast ==
    [cause |-> "none", status |-> StatusUndefined, text |-> "",
     waited |-> FALSE, tokenFetches |-> 0, stsFetches |-> 0, apiFetches |-> 0,
     idp |-> NoAnswer, sts |-> "none"]

\* const endpoint = process.env.SP_API_ENDPOINT || 'https://sellingpartner...';
\* new URL(endpoint) throws a TypeError unless endpoint is an absolute URL
NotAUrl == "sellingpartnerapi-na.amazon.com"
EndpointIsUrl(e) == ~Truthy(e["SP_API_ENDPOINT"]) \/ e["SP_API_ENDPOINT"] # NotAUrl

EmptyEnv == [k \in EnvKeys |-> Undefined]

\* the configurations of the running system: the LWA keys and seller ids are
\* set; the key pair and the role identifier are each set or not
Configured(keys) == [k \in EnvKeys |-> IF k \in keys THEN "set" ELSE Undefined]
LwaKeys == {"LWA_CLIENT_ID", "LWA_CLIENT_SECRET", "REFRESH_TOKEN",
            "SELLER_ID", "MARKETPLACE_ID"}
AwsKeyPair == {"AWS_ACCESS_KEY_ID", "AWS_SECRET_ACCESS_KEY"}
RunEnvs ==
    {Configured(LwaKeys \cup a \cup r) :
        a \in {{}, AwsKeyPair}, r \in {{}, {"AWS_ROLE_ARN"}}}

\* auth.ts never reads the role identifier; one more configuration has an
\* SP_API_ENDPOINT that is no URL
RunConfigs ==
    {cfg \in AuthModules \X RunEnvs :
        cfg[1] = "auth.ts" => ~Truthy(cfg[2]["AWS_ROLE_ARN"])}
    \cup {<<"auth.ts",
            [Configured(LwaKeys) EXCEPT !["SP_API_ENDPOINT"] = NotAUrl]>>}

NoValidation == [done |-> FALSE, valid |-> FALSE, missing |-> <<>>]

\* a caller's route handler: test-all keeps the index of the running test and
\* the counts of its results
NoRoute ==
    [handler |-> "none", step |-> 0, success |-> 0, errors |-> 0, wakeAt |-> 0]

\* NextResponse.json(body, { status }): the HTTP status is 200 unless given
NoBody == [none |-> TRUE]
NoResponse == [sent |-> FALSE, handler |-> "none", status |-> 0, body |-> NoBody]
JsonResponse(handler, status, body) ==
    [sent |-> TRUE, handler |-> handler, status |-> status, body |-> body]

\* no params record built yet: params is the record as the sequence of its
\* properties in the order of their creation, entries the local of the last
\* buildQueryString call, outs the strings the calls returned
NoQuery == [params |-> <<>>, entries |-> <<>>, outs |-> <<>>]

\* the state after the modules are loaded, for a set of configurations
InitWith(configs, cache) ==
    /\ now = 0
    /\ \E cfg \in configs : authModule = cfg[1] /\ env = cfg[2]
    /\ cachedToken = cache
    /\ requestTimestamps = [t \in ApiTypes |-> <<>>]
    /\ pc = [c \in Callers |-> "idle"]
    /\ call = [c \in Callers |-> NoCall]
    /\ result = [c \in Callers |-> NoResult]
    /\ calls = 0
    /\ proceeded = [t \in ApiTypes |-> <<>>]
    /\ last = [c \in Callers |-> NoLast]
    /\ validation = NoValidation
    /\ route = [c \in Callers |-> NoRoute]
    /\ response = [c \in Callers |-> NoResponse]
    /\ query = NoQuery

-----------------------------------------------------------------------------
(* utils.ts: spApiRequest, one action per synchronous segment *)

\* the call returns its envelope to the caller
Finish(c, rec, envelope, cause, status, text) ==
    /\ result' = [result EXCEPT ![c] = envelope]
    /\ last' = [last EXCEPT ![c] =
                  [cause |-> cause, status |-> status, text |-> text,
                   waited |-> rec.waited,
                   tokenFetches |-> rec.tokenFetches,
                   stsFetches |-> rec.stsFetches,
                   apiFetches |-> rec.apiFetches,
                   idp |-> rec.idp, sts |-> rec.sts]]
    /\ pc' = [pc EXCEPT ![c] = "returning"]
    /\ call' = [call EXCEPT ![c] = NoCall]

\* mutant of Caught: the error leaves spApiRequest, whose promise rejects
CaughtOutsideTry(c, rec, message, cause) ==
    Finish(c, rec,
           [returned |-> FALSE, success |-> FALSE, data |-> Undefined,
            error |-> message, statusCode |-> StatusUndefined],
           cause, StatusUndefined, "")

\* an error thrown inside the try block reaches the catch clause
Caught(c, rec, message, cause) ==
    Finish(c, rec, CaughtEnvelope(message), cause, StatusUndefined, "")

\* headers: { 'Content-Type': ..., 'x-amz-access-token': accessToken,
\* ...headers }; the client's operations pass no headers of their own
PreparedHeaders == {"Content-Type", "x-amz-access-token"}

\* aws4.sign(requestOptions, { accessKeyId, secretAccessKey, sessionToken })
\* is called whatever the credentials hold: it adds Host, X-Amz-Date and
\* Authorization, and X-Amz-Security-Token for a session token
SignedHeaders(headers, credentials) ==
    headers \cup {"Host", "X-Amz-Date", "Authorization"}
            \cup (IF Truthy(credentials.sessionToken)
                  THEN {"X-Amz-Security-Token"} ELSE {})

\* the request is prepared for signing, signed, and fetch(endpoint + fullPath)
\* is issued with signedRequest.headers
SendRequest(c, rec) ==
    IF EndpointIsUrl(env)
    THEN /\ pc' = [pc EXCEPT ![c] = "awaitApi"]
         /\ call' = [call EXCEPT ![c] =
                [rec EXCEPT !.apiFetches = @ + 1,
                            !.steps = Append(@, "fetch"),
                            !.headers = SignedHeaders(PreparedHeaders,
                                                      rec.credentials)]]
         /\ UNCHANGED <<result, last>>
    ELSE Caught(c, rec, "Invalid URL", "url")

\* requestTimestamps[apiType].push(now): now is the constant read on entry
PushedTimestamp(enteredAt, current) == enteredAt

\* RATE_LIMITS and requestTimestamps are plain objects: for a category named
\* like a member of Object.prototype, RATE_LIMITS[apiType] and
\* requestTimestamps[apiType] are that inherited member, which is truthy and
\* has no filter method
ObjectPrototypeKeys == {"constructor", "toString", "valueOf", "hasOwnProperty"}
PathConstructor == <<"", "constructor", "v1">>
NotAFunctionMessage == "requestTimestamps[apiType].filter is not a function"

\* checkRateLimit from its entry to its await, or to its end when the log is
\* below the limit; then the code up to the fetch of the target API
CheckRateLimit(c, rec0) ==
    LET apiType == ApiType(rec0.path)
        rec == [rec0 EXCEPT !.steps = Append(@, "checkRateLimit")]
        limit == LimitFor(apiType)
        kept == RemoveOld(requestTimestamps[apiType], now, limit.period)
    IN  IF apiType \in ObjectPrototypeKeys
        THEN /\ Caught(c, rec, NotAFunctionMessage, "limiter")
             /\ UNCHANGED <<requestTimestamps, proceeded>>
        ELSE IF AtLimit(kept, limit)
        THEN /\ requestTimestamps' =
                    [requestTimestamps EXCEPT ![apiType] = kept]
             /\ pc' = [pc EXCEPT ![c] = "sleeping"]
             /\ call' = [call EXCEPT ![c] =
                    [rec EXCEPT !.enteredAt = now,
                                !.wakeAt = now + WaitTime(kept, now, limit.period),
                                !.waited = TRUE]]
             /\ UNCHANGED <<proceeded, result, last>>
        ELSE /\ requestTimestamps' =
                    [requestTimestamps EXCEPT ![apiType] =
                        Append(kept, PushedTimestamp(now, now))]
             /\ proceeded' = [proceeded EXCEPT ![apiType] = Append(@, now)]
             /\ SendRequest(c, [rec EXCEPT !.enteredAt = now])

\* getSTSCredentials as the auth module in use defines it; cache is the token
\* cache as the preceding getAccessToken left it
ResolveCredentials(c, rec0, cache) ==
    LET rec == [rec0 EXCEPT !.steps = Append(@, "getSTSCredentials")]
    IN  IF authModule = "auth.ts"
        THEN CheckRateLimit(c,
                [rec EXCEPT !.credentials = StaticOrDummyCredentials(env)])
        ELSE IF UsesIamUserDirectly(env)
        THEN CheckRateLimit(c,
                [rec EXCEPT !.credentials = IamUserCredentials(env)])
        ELSE IF TokenValid(cache, now)
        THEN /\ pc' = [pc EXCEPT ![c] = "awaitSts"]
             /\ call' = [call EXCEPT ![c] = [rec EXCEPT !.stsFetches = @ + 1]]
             /\ UNCHANGED <<requestTimestamps, proceeded, result, last>>
        ELSE /\ pc' = [pc EXCEPT ![c] = "awaitStsToken"]
             /\ call' = [call EXCEPT ![c] = [rec EXCEPT !.tokenFetches = @ + 1]]
             /\ UNCHANGED <<requestTimestamps, proceeded, result, last>>

\* the envelope a call returns is taken by its caller, and the response of a
\* route handler is sent, in the same turn of the event loop, before any other
\* segment runs; so are the two calls the dashboard handler makes one after
\* the other ("starting")
NoneReturning ==
    \A c \in Callers : pc[c] \notin {"returning", "responding", "starting"}

\* health: the response for the envelope of getMarketplaceParticipations
HealthResponse(envelope) ==
    IF envelope.success
    THEN JsonResponse("health", 200,
            [status |-> "healthy", configured |-> TRUE,
             message |-> "SP-API connection successful",
             marketplaces |-> envelope.data])
    ELSE JsonResponse("health", 200,
            [status |-> "error", configured |-> TRUE,
             message |-> IF Truthy(envelope.error) THEN envelope.error
                         ELSE "Failed to connect to SP-API"])

\* sp-api/inventory: the response for the envelope of getInventorySummaries
InventoryResponse(envelope) ==
    IF envelope.success
    THEN JsonResponse("inventory", 200,
            [success |-> TRUE, data |-> envelope.data])
    ELSE JsonResponse("inventory",
            IF envelope.statusCode # StatusUndefined THEN envelope.statusCode
            ELSE 500,
            [success |-> FALSE, error |-> envelope.error])

\* dashboard: the response after both calls returned; the totals are sums
\* over payload.inventorySummaries and payload.Orders of the envelopes'
\* data, which no body of the model has (|| [])
DashboardResponse ==
    JsonResponse("dashboard", 200,
        [success |-> TRUE,
         data |-> [inventory |-> [totalQuantity |-> 0, lowStockCount |-> 0],
                   orders |-> [pending |-> 0, shipped |-> 0, total |-> 0],
                   revenue |-> 0, shipments |-> 0]])

\* test-all: await new Promise(resolve => setTimeout(resolve, 200))
TestDelay == 200

\* test-all: the result of a test is pushed as 'success' or 'error'; results
\* is kept as the two counts its summary is made of
TestResult(r, envelope) ==
    [r EXCEPT !.success = IF envelope.success THEN @ + 1 ELSE @,
              !.errors = IF envelope.success THEN @ ELSE @ + 1,
              !.wakeAt = now + TestDelay]

\* test-all: the response after the last test
TestAllResponse(r) ==
    JsonResponse("test-all", 200,
        [success |-> r.errors = 0,
         summary |-> [total |-> r.success + r.errors, success |-> r.success,
                      errors |-> r.errors]])

\* the caller has the envelope and the call is over; a route handler builds
\* its response from the envelope, or (test-all) goes on to its delay
Return(c) ==
    /\ pc[c] = "returning"
    /\ result' = [result EXCEPT ![c] = NoResult]
    /\ last' = [last EXCEPT ![c] = NoLast]
    /\ UNCHANGED <<now, authModule, env, query, cachedToken, requestTimestamps,
                   call, calls, proceeded, validation>>
    /\ CASE route[c].handler = "health" ->
                /\ response' = [response EXCEPT ![c] = HealthResponse(result[c])]
                /\ pc' = [pc EXCEPT ![c] = "responding"]
                /\ UNCHANGED route
         [] route[c].handler = "inventory" ->
                /\ response' =
                        [response EXCEPT ![c] = InventoryResponse(result[c])]
                /\ pc' = [pc EXCEPT ![c] = "responding"]
                /\ UNCHANGED route
         [] route[c].handler = "test-all" ->
                /\ route' = [route EXCEPT ![c] = TestResult(@, result[c])]
                /\ pc' = [pc EXCEPT ![c] = "routeSleep"]
                /\ UNCHANGED response
         [] route[c].handler = "dashboard" ->
                /\ \A d \in Callers : pc[d] # "starting"
                /\ IF \A d \in Callers \ {c} : pc[d] = "joined"
                   THEN /\ response' =
                                [response EXCEPT !["a"] = DashboardResponse]
                        /\ pc' = [d \in Callers |->
                                    IF d = "a" THEN "responding" ELSE "idle"]
                        /\ route' = [route EXCEPT !["b"] = NoRoute]
                   ELSE /\ pc' = [pc EXCEPT ![c] = "joined"]
                        /\ UNCHANGED <<route, response>>
         [] OTHER ->
                /\ pc' = [pc EXCEPT ![c] = "idle"]
                /\ UNCHANGED <<route, response>>

\* spApiRequest from its call to its first await: getAccessToken returns the
\* cached token, or sends the refresh exchange
SpApiRequest(c, path) ==
    /\ calls' = calls + 1
    /\ LET rec == [NoCall EXCEPT !.path = path,
                                 !.steps = <<"getAccessToken">>]
       IN  IF TokenValid(cachedToken, now)
           THEN ResolveCredentials(c,
                    [rec EXCEPT !.accessToken = cachedToken.accessToken,
                                !.tokenExpiresAt = cachedToken.expiresAt],
                    cachedToken)
           ELSE /\ pc' = [pc EXCEPT ![c] = "awaitToken"]
                /\ call' = [call EXCEPT ![c] = [rec EXCEPT !.tokenFetches = 1]]
                /\ UNCHANGED <<requestTimestamps, proceeded, result, last>>

\* spApiRequest is called by a caller that runs no route handler
Request(c, path) ==
    /\ NoneReturning
    /\ pc[c] = "idle"
    /\ SpApiRequest(c, path)
    /\ UNCHANGED <<now, authModule, env, query, cachedToken, validation, route,
                   response>>

\* mutant of TokenResponse: a failed exchange clears the token cache
TokenResponseClearsCache(c, o) ==
    /\ NoneReturning
    /\ pc[c] = "awaitToken"
    /\ UNCHANGED <<now, authModule, env, query, calls, validation, route, response>>
    /\ IF o.kind = "ok"
       THEN LET entry == NewCacheEntry(o.accessToken, o.expiresIn, now)
            IN  /\ cachedToken' = entry
                /\ ResolveCredentials(c,
                      [call[c] EXCEPT !.accessToken = entry.accessToken,
                                      !.tokenExpiresAt = entry.expiresAt,
                                      !.idp = o],
                      entry)
       ELSE /\ Caught(c, [call[c] EXCEPT !.idp = o], TokenFailureMessage(o),
                     "token")
            /\ cachedToken' = NoToken
            /\ UNCHANGED <<requestTimestamps, proceeded>>

\* the identity provider answers the exchange sent by spApiRequest's
\* getAccessToken
TokenResponse(c, o) ==
    /\ NoneReturning
    /\ pc[c] = "awaitToken"
    /\ UNCHANGED <<now, authModule, env, query, calls, validation, route, response>>
    /\ IF o.kind = "ok"
       THEN LET entry == NewCacheEntry(o.accessToken, o.expiresIn, now)
            IN  /\ cachedToken' = entry
                /\ ResolveCredentials(c,
                      [call[c] EXCEPT !.accessToken = entry.accessToken,
                                      !.tokenExpiresAt = entry.expiresAt,
                                      !.idp = o],
                      entry)
       ELSE /\ Caught(c, [call[c] EXCEPT !.idp = o], TokenFailureMessage(o),
                     "token")
            /\ UNCHANGED <<cachedToken, requestTimestamps, proceeded>>

\* part_007: the identity provider answers the exchange sent by the
\* getAccessToken call inside getSTSCredentials; then the AssumeRole exchange
\* is sent
StsTokenResponse(c, o) ==
    /\ NoneReturning
    /\ pc[c] = "awaitStsToken"
    /\ UNCHANGED <<now, authModule, env, query, calls, validation,
                   requestTimestamps, proceeded, route, response>>
    /\ IF o.kind = "ok"
       THEN /\ cachedToken' = NewCacheEntry(o.accessToken, o.expiresIn, now)
            /\ pc' = [pc EXCEPT ![c] = "awaitSts"]
            /\ call' = [call EXCEPT ![c].stsFetches = @ + 1, ![c].idp = o]
            /\ UNCHANGED <<result, last>>
       ELSE /\ Caught(c, [call[c] EXCEPT !.idp = o], TokenFailureMessage(o),
                     "token")
            /\ UNCHANGED cachedToken

\* mutant of StsResponse: the rate limiter's log gets the call's timestamp
\* although the AssumeRole fetch was rejected
StsResponseTakesSlot(c, o) ==
    /\ NoneReturning
    /\ pc[c] = "awaitSts"
    /\ UNCHANGED <<now, authModule, env, query, calls, validation, cachedToken,
                   route, response>>
    /\ IF o.kind = "throw"
       THEN /\ Caught(c, [call[c] EXCEPT !.sts = o.kind], "fetch failed", "sts")
            /\ requestTimestamps' =
                    [requestTimestamps EXCEPT ![ApiType(call[c].path)] =
                        Append(@, now)]
            /\ UNCHANGED proceeded
       ELSE CheckRateLimit(c,
                  [call[c] EXCEPT !.sts = o.kind,
                                  !.credentials =
                      IF o.kind = "status" THEN IamUserCredentials(env)
                      ELSE AssumedRoleCredentials(o, env)])

\* part_007: the AssumeRole exchange is answered
StsResponse(c, o) ==
    /\ NoneReturning
    /\ pc[c] = "awaitSts"
    /\ UNCHANGED <<now, authModule, env, query, calls, validation, cachedToken,
                   route, response>>
    /\ IF o.kind = "throw"
       THEN /\ Caught(c, [call[c] EXCEPT !.sts = o.kind], "fetch failed", "sts")
            /\ UNCHANGED <<requestTimestamps, proceeded>>
       ELSE CheckRateLimit(c,
                  [call[c] EXCEPT !.sts = o.kind,
                                  !.credentials =
                      IF o.kind = "status" THEN IamUserCredentials(env)
                      ELSE AssumedRoleCredentials(o, env)])

\* the timer of checkRateLimit fires: the timestamp is pushed and the request
\* is sent
WakeUp(c) ==
    /\ NoneReturning
    /\ pc[c] = "sleeping"
    /\ now >= call[c].wakeAt
    /\ LET apiType == ApiType(call[c].path)
       IN  /\ requestTimestamps' =
                [requestTimestamps EXCEPT ![apiType] =
                    Append(@, PushedTimestamp(call[c].enteredAt, now))]
           /\ proceeded' = [proceeded EXCEPT ![apiType] = Append(@, now)]
    /\ SendRequest(c, call[c])
    /\ UNCHANGED <<now, authModule, env, query, cachedToken, calls, validation,
                   route, response>>

\* the target API answers, or the fetch is rejected
ApiResponse(c, o) ==
    /\ NoneReturning
    /\ pc[c] = "awaitApi"
    /\ UNCHANGED <<now, authModule, env, query, cachedToken, calls, validation,
                   requestTimestamps, proceeded, route, response>>
    /\ IF o.kind = "throw"
       THEN Caught(c, call[c], o.text, "network")
       ELSE Finish(c, call[c], ResponseEnvelope(o.status, o.text),
                   "response", o.status, o.text)

\* time passes
Tick(d) ==
    /\ NoneReturning
    /\ now' = now + d
    /\ UNCHANGED <<authModule, env, query, cachedToken, requestTimestamps, pc, call,
                   result, calls, proceeded, last, validation, route, response>>

-----------------------------------------------------------------------------
(* auth.ts / part_007: validateCredentials *)

\* const required = [...] of each auth module
RequiredAuthTs ==
    <<"LWA_CLIENT_ID", "LWA_CLIENT_SECRET", "REFRESH_TOKEN", "SELLER_ID",
      "MARKETPLACE_ID">>
RequiredPart007 ==
    <<"LWA_CLIENT_ID", "LWA_CLIENT_SECRET", "REFRESH_TOKEN",
      "AWS_ACCESS_KEY_ID", "AWS_SECRET_ACCESS_KEY", "SELLER_ID",
      "MARKETPLACE_ID">>
RequiredKeys(module) ==
    IF module = "auth.ts" THEN RequiredAuthTs ELSE RequiredPart007

\* mutant of ValidateCredentials: only unset keys count as missing
ValidateCredentialsUnsetOnly(e, required) ==
    LET missing == SelectSeq(required, LAMBDA k : e[k] = Undefined)
    IN  [done |-> TRUE, valid |-> Len(missing) = 0, missing |-> missing]

\* const missing = required.filter((key) => !process.env[key]);
\* return { valid: missing.length === 0, missing }
ValidateCredentials(e, required) ==
    LET missing == SelectSeq(required, LAMBDA k : ~Truthy(e[k]))
    IN  [done |-> TRUE, valid |-> Len(missing) = 0, missing |-> missing]

\* validateCredentials() is called
Validate ==
    /\ ~validation.done
    /\ validation' = ValidateCredentials(env, RequiredKeys(authModule))
    /\ UNCHANGED <<now, authModule, env, query, cachedToken, requestTimestamps, pc,
                   call, result, calls, proceeded, last, route, response>>

-----------------------------------------------------------------------------
(* utils.ts: buildQueryString *)

\* strings are sequences of characters; a value of a params record is
\* undefined, a string or an array of strings
UndefinedValue == [type |-> "undefined", chars |-> <<>>, items |-> <<>>]
StringValue(chars) == [type |-> "string", chars |-> chars, items |-> <<>>]
ArrayValue(items) == [type |-> "array", chars |-> <<>>, items |-> items]

QueryKeys == {<<"a">>, <<"b">>, <<"1">>, <<"2">>}
QueryStrings == {<<>>, <<"x">>, <<"x", " ", "&">>}
QueryArrays == {<<>>, << <<"x">>, <<"y", ",">> >>}
QueryValues ==
    {UndefinedValue} \cup {StringValue(cs) : cs \in QueryStrings}
    \cup {ArrayValue(a) : a \in QueryArrays}

\* a property key that is an array index (a canonical numeric string), and
\* its number
DigitValue == [ch \in {"1", "2"} |-> IF ch = "1" THEN 1 ELSE 2]
IsArrayIndex(key) == Len(key) = 1 /\ key[1] \in DOMAIN DigitValue
IndexOf(key) == DigitValue[key[1]]

\* the properties of ps whose keys are array indices, in ascending order of
\* the index
RECURSIVE AscendingIndices(_)
AscendingIndices(ps) ==
    IF ps = {} THEN <<>>
    ELSE LET least == CHOOSE p \in ps :
                        \A q \in ps : IndexOf(p.key) <= IndexOf(q.key)
         IN  <<least>> \o AscendingIndices(ps \ {least})

\* Object.entries(params): the own properties with array-index keys first, in
\* ascending order, then those with string keys in the order of their creation
IsIndexProperty(p) == IsArrayIndex(p.key)
IsNamedProperty(p) == ~IsArrayIndex(p.key)
ObjectEntries(params) ==
    AscendingIndices({params[i] : i \in {j \in 1..Len(params) :
                                            IsIndexProperty(params[j])}})
    \o SelectSeq(params, IsNamedProperty)

\* String(undefined), which a property that is not filtered out would give
UndefinedChars == <<"u", "n", "d", "e", "f", "i", "n", "e", "d">>

\* the callback of flatMap: one [key, v] per element of an array, else one
\* [key, value]
PairsOf(p) ==
    IF p.value.type = "array"
    THEN [n \in 1..Len(p.value.items) |-> <<p.key, p.value.items[n]>>]
    ELSE IF p.value.type = "string" THEN << <<p.key, p.value.chars>> >>
    ELSE << <<p.key, UndefinedChars>> >>

RECURSIVE FlatMap(_)
FlatMap(ps) ==
    IF ps = <<>> THEN <<>> ELSE PairsOf(Head(ps)) \o FlatMap(Tail(ps))

\* mutant of QueryEntries: the properties with undefined values are kept
QueryEntriesKeepsUndefined(params) == FlatMap(ObjectEntries(params))

\* const entries = Object.entries(params).filter(...).flatMap(...)
IsDefined(p) == p.value.type # "undefined"
QueryEntries(params) == FlatMap(SelectSeq(ObjectEntries(params), IsDefined))

\* the application/x-www-form-urlencoded serialisation of URLSearchParams: a
\* space becomes '+', a character outside the unreserved set its percent code
EncodeChar(ch) ==
    CASE ch = " " -> "+"
      [] ch = "&" -> "%26"
      [] ch = "," -> "%2C"
      [] ch = "=" -> "%3D"
      [] OTHER -> ch

RECURSIVE Encode(_)
Encode(chars) ==
    IF chars = <<>> THEN "" ELSE EncodeChar(Head(chars)) \o Encode(Tail(chars))

\* new URLSearchParams(entries).toString()
RECURSIVE Serialize(_)
Serialize(entries) ==
    IF entries = <<>> THEN ""
    ELSE Encode(Head(entries)[1]) \o "=" \o Encode(Head(entries)[2])
         \o (IF Tail(entries) = <<>> THEN ""
             ELSE "&" \o Serialize(Tail(entries)))

\* if (entries.length === 0) return ''; return '?' + ...
BuildQueryString(params) ==
    LET entries == QueryEntries(params)
    IN  IF Len(entries) = 0 THEN "" ELSE "?" \o Serialize(entries)

\* a caller builds its query record: query.key = value creates the property,
\* or replaces the value of the property it has
QueryAssign(key, value) ==
    /\ query.outs = <<>>
    /\ IF \E i \in 1..Len(query.params) : query.params[i].key = key
       THEN LET i == CHOOSE i \in 1..Len(query.params) :
                        query.params[i].key = key
            IN  query' = [query EXCEPT !.params[i].value = value]
       ELSE /\ Len(query.params) < MaxParams
            /\ query' = [query EXCEPT
                    !.params = Append(@, [key |-> key, value |-> value])]
    /\ UNCHANGED <<now, authModule, env, cachedToken, requestTimestamps, pc,
                   call, result, calls, proceeded, last, validation, route,
                   response>>

\* buildQueryString(query) is called
BuildQuery ==
    /\ Len(query.params) > 0
    /\ Len(query.outs) < MaxBuilds
    /\ query' = [query EXCEPT !.entries = QueryEntries(query.params),
                              !.outs = Append(@, BuildQueryString(query.params))]
    /\ UNCHANGED <<now, authModule, env, cachedToken, requestTimestamps, pc,
                   call, result, calls, proceeded, last, validation, route,
                   response>>

-----------------------------------------------------------------------------
(* app/api: the route handlers *)

\* a handler's synchronous start that leaves spApiRequest's state alone
NoRequestStarted ==
    UNCHANGED <<calls, call, requestTimestamps, proceeded, result, last>>

\* GET /api/health: validateCredentials, then getMarketplaceParticipations
HealthGet(c) ==
    /\ NoneReturning
    /\ pc[c] = "idle"
    /\ UNCHANGED <<now, authModule, env, query, cachedToken>>
    /\ LET v == ValidateCredentials(env, RequiredKeys(authModule))
       IN  /\ validation' = v
           /\ route' = [route EXCEPT ![c] = [NoRoute EXCEPT !.handler = "health"]]
           /\ IF ~v.valid
              THEN /\ response' = [response EXCEPT ![c] =
                        JsonResponse("health", 200,
                            [status |-> "not_configured", configured |-> FALSE,
                             message |-> "Missing required credentials",
                             missing |-> v.missing])]
                   /\ pc' = [pc EXCEPT ![c] = "responding"]
                   /\ NoRequestStarted
              ELSE /\ SpApiRequest(c, PathSellers)
                   /\ UNCHANGED response

\* GET /api/test-all: validateCredentials, then the first test
TestAllGet(c) ==
    /\ NoneReturning
    /\ pc[c] = "idle"
    /\ UNCHANGED <<now, authModule, env, query, cachedToken>>
    /\ LET v == ValidateCredentials(env, RequiredKeys(authModule))
       IN  /\ validation' = v
           /\ IF ~v.valid
              THEN /\ response' = [response EXCEPT ![c] =
                        JsonResponse("test-all", 200,
                            [success |-> FALSE,
                             message |-> "Missing credentials",
                             missing |-> v.missing])]
                   /\ route' = [route EXCEPT ![c] =
                                    [NoRoute EXCEPT !.handler = "test-all"]]
                   /\ pc' = [pc EXCEPT ![c] = "responding"]
                   /\ NoRequestStarted
              ELSE /\ route' = [route EXCEPT ![c] =
                                    [NoRoute EXCEPT !.handler = "test-all",
                                                    !.step = 1]]
                   /\ SpApiRequest(c, TestAllPaths[1])
                   /\ UNCHANGED response

\* test-all: the delay after a test is over; the next test starts, or the
\* summary is sent
TestAllNext(c) ==
    /\ NoneReturning
    /\ pc[c] = "routeSleep"
    /\ now >= route[c].wakeAt
    /\ UNCHANGED <<now, authModule, env, query, cachedToken, validation>>
    /\ IF route[c].step < Len(TestAllPaths)
       THEN /\ route' = [route EXCEPT ![c].step = @ + 1]
            /\ SpApiRequest(c, TestAllPaths[route[c].step + 1])
            /\ UNCHANGED response
       ELSE /\ response' = [response EXCEPT ![c] = TestAllResponse(route[c])]
            /\ pc' = [pc EXCEPT ![c] = "responding"]
            /\ UNCHANGED route
            /\ NoRequestStarted

\* GET /api/sp-api/inventory: getInventorySummaries with no validation
InventoryGet(c) ==
    /\ NoneReturning
    /\ pc[c] = "idle"
    /\ route' = [route EXCEPT ![c] = [NoRoute EXCEPT !.handler = "inventory"]]
    /\ SpApiRequest(c, PathFbaInventory)
    /\ UNCHANGED <<now, authModule, env, query, cachedToken, validation, response>>

\* debug: credentialsPresent, and the hints on the three LWA values (the
\* values of the model carry no prefix)
CredentialsPresent(e) ==
    [k \in {"LWA_CLIENT_ID", "LWA_CLIENT_SECRET", "REFRESH_TOKEN", "SELLER_ID",
            "MARKETPLACE_ID"} |-> Truthy(e[k])]
WellFormed == "well-formed"
Hints(e) ==
    [k \in {"LWA_CLIENT_ID", "LWA_CLIENT_SECRET", "REFRESH_TOKEN"} |->
        IF e[k] = WellFormed THEN "OK" ELSE "Should start with the prefix"]

\* debug: let tokenResult = { success: false }
NoTokenData ==
    [token_type |-> Undefined, expires_in |-> 0, access_token_received |-> FALSE]
NoTokenResult == [success |-> FALSE, error |-> Undefined, data |-> NoTokenData]

\* mutant of TokenResult: the token is put into the result
TokenResultWithToken(o) ==
    IF o.kind = "ok"
    THEN [success |-> TRUE, error |-> Undefined,
          data |-> [token_type |-> "bearer", expires_in |-> o.expiresIn,
                    access_token_received |-> Truthy(o.accessToken),
                    access_token |-> o.accessToken]]
    ELSE [success |-> FALSE, error |-> o.text, data |-> NoTokenData]

\* debug: tokenResult for the identity provider's answer; for a success
\* status it holds token_type, expires_in and !!data.access_token
TokenResult(o) ==
    IF o.kind = "ok"
    THEN [success |-> TRUE, error |-> Undefined,
          data |-> [token_type |-> "bearer", expires_in |-> o.expiresIn,
                    access_token_received |-> Truthy(o.accessToken)]]
    ELSE [success |-> FALSE, error |-> o.text, data |-> NoTokenData]

DebugResponse(e, tokenResult) ==
    JsonResponse("debug", 200,
        [credentials |-> CredentialsPresent(e), tokenRefresh |-> tokenResult,
         hints |-> Hints(e)])

\* GET /api/debug: the exchange is sent when the three LWA values are set
DebugGet(c) ==
    /\ NoneReturning
    /\ pc[c] = "idle"
    /\ route' = [route EXCEPT ![c] = [NoRoute EXCEPT !.handler = "debug"]]
    /\ IF /\ Truthy(env["LWA_CLIENT_ID"])
          /\ Truthy(env["LWA_CLIENT_SECRET"])
          /\ Truthy(env["REFRESH_TOKEN"])
       THEN /\ pc' = [pc EXCEPT ![c] = "awaitDebugToken"]
            /\ UNCHANGED response
       ELSE /\ pc' = [pc EXCEPT ![c] = "responding"]
            /\ response' = [response EXCEPT ![c] =
                                DebugResponse(env, NoTokenResult)]
    /\ NoRequestStarted
    /\ UNCHANGED <<now, authModule, env, query, cachedToken, validation>>

\* debug: the identity provider answers, or the fetch or response.json() fails
DebugTokenResponse(c, o) ==
    /\ NoneReturning
    /\ pc[c] = "awaitDebugToken"
    /\ pc' = [pc EXCEPT ![c] = "responding"]
    /\ response' = [response EXCEPT ![c] = DebugResponse(env, TokenResult(o))]
    /\ NoRequestStarted
    /\ UNCHANGED <<now, authModule, env, query, cachedToken, validation, route>>

\* GET /api/dashboard (part_003): the handler is entered by caller a, which
\* makes its first call, with caller b making its second
DashboardGet ==
    /\ NoneReturning
    /\ \A c \in Callers : pc[c] = "idle"
    /\ pc' = [c \in Callers |-> "starting"]
    /\ route' = [c \in Callers |-> [NoRoute EXCEPT !.handler = "dashboard"]]
    /\ NoRequestStarted
    /\ UNCHANGED <<now, authModule, env, query, cachedToken, validation, response>>

\* dashboard: Promise.all([getInventorySummaries(), getOrders({...})]): each
\* call runs to its first await before the next expression is evaluated
DashboardPath(c) == IF c = "a" THEN PathFbaInventory ELSE PathOrders
DashboardCall(c) ==
    /\ pc[c] = "starting"
    /\ c = "b" => pc["a"] # "starting"
    /\ SpApiRequest(c, DashboardPath(c))
    /\ UNCHANGED <<now, authModule, env, query, cachedToken, validation, route,
                   response>>

\* the response of a route handler is sent
Respond(c) ==
    /\ pc[c] = "responding"
    /\ pc' = [pc EXCEPT ![c] = "idle"]
    /\ route' = [route EXCEPT ![c] = NoRoute]
    /\ response' = [response EXCEPT ![c] = NoResponse]
    /\ NoRequestStarted
    /\ UNCHANGED <<now, authModule, env, query, cachedToken, validation>>

-----------------------------------------------------------------------------
(* Specifications *)

\* Spec: one caller making sequential calls, under every configuration and
\* every answer of the identity provider, the AssumeRole endpoint and the
\* target API
Init == InitWith(RunConfigs, NoToken)

Next ==
    \/ \E p \in {PathReports, PathConstructor} :
            calls < MaxCalls /\ Request("a", p)
    \/ \E o \in TokenOutcomes : TokenResponse("a", o)
    \/ \E o \in TokenOutcomes : StsTokenResponse("a", o)
    \/ \E o \in StsOutcomes : StsResponse("a", o)
    \/ WakeUp("a")
    \/ \E o \in ApiOutcomes : ApiResponse("a", o)
    \/ Return("a")
    \/ \E d \in TickSteps : now + d <= MaxTicks * d /\ Tick(d)

Spec == Init /\ [][Next]_vars

\* SpecToken: concurrent callers sharing the token cache, with the auth.ts
\* module and no key pair configured
PlainConfig == {<<"auth.ts", Configured(LwaKeys)>>}
PlainApiOutcomes ==
    {o \in ApiOutcomes : o.kind = "throw" \/ (o.status = 200 /\ o.text = BodyPayload)}

InitToken == InitWith(PlainConfig, NoToken)

NextToken ==
    \/ \E c \in Callers, p \in {PathFbaInventory} :
            calls < MaxCalls /\ Request(c, p)
    \/ \E c \in Callers, o \in TokenOutcomes : TokenResponse(c, o)
    \/ \E c \in Callers, o \in PlainApiOutcomes : ApiResponse(c, o)
    \/ \E c \in Callers : Return(c)
    \/ \E d \in TickSteps : now + d <= MaxTicks * d /\ Tick(d)

SpecToken == InitToken /\ [][NextToken]_vars

\* SpecRate: concurrent callers in several rate-limit categories, with a token
\* cached at start-up that stays valid throughout
WarmToken == NewCacheEntry("Atza|1", 3600, 0)

InitRate == InitWith(PlainConfig, WarmToken)

NextRate ==
    \/ \E c \in Callers, p \in Paths : calls < MaxRateCalls /\ Request(c, p)
    \/ \E c \in Callers : WakeUp(c)
    \/ \E c \in Callers, o \in PlainApiOutcomes : ApiResponse(c, o)
    \/ \E c \in Callers : Return(c)
    \/ \E d \in TickSteps : now + d <= MaxTicks * d /\ Tick(d)

SpecRate == InitRate /\ [][NextRate]_vars

\* SpecValidate: validateCredentials under every configuration in which each
\* key is unset, empty or set
EnvValues == {Undefined, "", "set"}
AnyConfig == AuthModules \X [EnvKeys -> EnvValues]

InitValidate == InitWith(AnyConfig, NoToken)

NextValidate == Validate

SpecValidate == InitValidate /\ [][NextValidate]_vars

\* SpecRoutes: the route handlers, one request at a time, under configurations
\* in which LWA_CLIENT_ID, SELLER_ID and the key pair are each set or not
RouteEnvs ==
    {Configured((LwaKeys \ m) \cup a) :
        m \in SUBSET {"LWA_CLIENT_ID", "SELLER_ID"}, a \in {{}, AwsKeyPair}}
RouteConfigs == AuthModules \X RouteEnvs

InitRoutes == InitWith(RouteConfigs, NoToken)

\* the identity provider's answers with the lifetime it gives its tokens, one
\* hour
RouteTokenOutcomes ==
    {[kind |-> "ok", accessToken |-> a, expiresIn |-> 3600, text |-> "token"] :
        a \in TokenValues}
    \cup {o \in TokenOutcomes : o.kind # "ok"}

\* a timer of a running handler is pending
TimerPending ==
    \E c \in Callers :
        \/ pc[c] = "routeSleep" /\ now < route[c].wakeAt
        \/ pc[c] = "sleeping" /\ now < call[c].wakeAt

\* the clock is advanced while a timer is pending: no other step of the
\* handlers depends on it within an hour
NextRoutes ==
    \/ calls < MaxRouteCalls /\ HealthGet("a")
    \/ calls < MaxRouteCalls /\ TestAllGet("a")
    \/ calls < MaxRouteCalls /\ InventoryGet("a")
    \/ DebugGet("a")
    \/ \E o \in RouteTokenOutcomes : DebugTokenResponse("a", o)
    \/ \E o \in RouteTokenOutcomes : TokenResponse("a", o)
    \/ \E o \in PlainApiOutcomes : ApiResponse("a", o)
    \/ Return("a")
    \/ TestAllNext("a")
    \/ Respond("a")
    \/ \E d \in TickSteps :
            TimerPending /\ now + d <= MaxRouteTicks * d /\ Tick(d)

SpecRoutes == InitRoutes /\ [][NextRoutes]_vars

\* SpecDashboard: the dashboard handler, whose two calls run concurrently and
\* share the token cache
InitDashboard == InitWith(PlainConfig, NoToken)

NextDashboard ==
    \/ calls + 2 <= MaxDashboardCalls /\ DashboardGet
    \/ \E c \in Callers : DashboardCall(c)
    \/ \E c \in Callers, o \in TokenOutcomes : TokenResponse(c, o)
    \/ \E c \in Callers, o \in PlainApiOutcomes : ApiResponse(c, o)
    \/ \E c \in Callers : Return(c)
    \/ Respond("a")
    \/ \E d \in TickSteps : now + d <= MaxDashboardTicks * d /\ Tick(d)

SpecDashboard == InitDashboard /\ [][NextDashboard]_vars

\* SpecQuery: params records built by assignments, and buildQueryString
\* called on them
InitQuery == InitWith(PlainConfig, NoToken)

NextQuery ==
    \/ \E k \in QueryKeys, v \in QueryValues : QueryAssign(k, v)
    \/ BuildQuery

SpecQuery == InitQuery /\ [][NextQuery]_vars

-----------------------------------------------------------------------------
(* Claims about the token cache *)

\* the step in which caller c calls spApiRequest, and with it getAccessToken
Calls(c) == pc[c] = "idle" /\ pc'[c] # "idle"

\* C1: a getAccessToken call made while the cached token is inside its
\* validity window (expiresAt > now + 60000 ms) returns the cached value and
\* sends no request to the identity provider
C1_TokenReuse ==
    [][\A c \in Callers :
        (/\ Calls(c)
         /\ cachedToken.present
         /\ cachedToken.expiresAt > now + 60000)
        => /\ IF pc'[c] = "returning"
              THEN last'[c].tokenFetches = 0
              ELSE /\ call'[c].accessToken = cachedToken.accessToken
                   /\ call'[c].tokenFetches = 0
           /\ pc'[c] \notin {"awaitToken", "awaitStsToken"}
           /\ cachedToken' = cachedToken]_vars

\* a second call is running on the cached token of the first, with no
\* exchange of its own
C1_Witness ==
    /\ calls >= 2
    /\ pc["a"] \in {"sleeping", "awaitApi", "awaitSts"}
    /\ call["a"].tokenFetches = 0
    /\ cachedToken.present
    /\ call["a"].accessToken = cachedToken.accessToken

\* C2: a cached token with expiresAt <= now + 60000 ms is treated as expired
\* and a refresh exchange is sent; one with expiresAt > now + 60000 ms is
\* used without a refresh
C2_RefreshBoundary ==
    [][\A c \in Callers :
        (Calls(c) /\ cachedToken.present)
        => IF cachedToken.expiresAt - now <= 60000
           THEN pc'[c] = "awaitToken" /\ call'[c].tokenFetches = 1
           ELSE pc'[c] # "awaitToken" /\ call'[c].tokenFetches = 0]_vars

\* a refresh is in flight for a cached token that expires exactly 60000 ms
\* from now
C2_Witness ==
    \E c \in Callers :
        /\ pc[c] = "awaitToken"
        /\ cachedToken.present
        /\ cachedToken.expiresAt = now + 60000
        /\ calls >= 2

-----------------------------------------------------------------------------
(* Claims about the rate limiter *)

\* the first path segment of a call: its rate-limit category
CategoryOf(c) == call[c].path[2]

\* the configured rate of a category: period, and the whole number of
\* requests per period (the reports entry 0.0167 admits one)
PeriodOf(t) == LimitFor(t).period
MaxRequestsOf(t) == (LimitFor(t).requests + Scale - 1) \div Scale

\* the calls of category t that proceeded past the limiter in [from, from + len)
ProceededIn(t, from, len) ==
    {j \in 1..Len(proceeded[t]) :
        proceeded[t][j] >= from /\ proceeded[t][j] < from + len}

\* C3: in no interval of length periodMillis do more calls of a category
\* proceed past the rate limiter than the category's maxRequests
C3_SlidingWindowBound ==
    \A t \in ApiTypes : \A i \in 1..Len(proceeded[t]) :
        Cardinality(ProceededIn(t, proceeded[t][i], PeriodOf(t)))
            <= MaxRequestsOf(t)

\* C4: from an empty log, the first N calls of a category limited to N
\* requests per period proceed without waiting, and the (N+1)th proceeds no
\* earlier than one period after the first call's timestamp
C4_RateLimiterWindow ==
    \A t \in ApiTypes :
        /\ \A c \in Callers :
              (pc[c] = "sleeping" /\ CategoryOf(c) = t)
              => Len(proceeded[t]) >= MaxRequestsOf(t)
        /\ Len(proceeded[t]) > MaxRequestsOf(t)
           => proceeded[t][MaxRequestsOf(t) + 1]
                >= proceeded[t][1] + PeriodOf(t)

\* three inventory calls (N = 2): the third entered when the second
\* proceeded, waited, and was sent one period after the first
C4_Witness ==
    \E c \in Callers :
        /\ pc[c] = "awaitApi"
        /\ call[c].path = PathInventory
        /\ call[c].waited
        /\ Len(proceeded["inventory"]) = 3
        /\ call[c].enteredAt = proceeded["inventory"][2]
        /\ proceeded["inventory"][3] = proceeded["inventory"][1] + 1000

\* the log of category t holds fewer entries inside the period than the
\* category admits
C5_BelowLimit(t) ==
    Cardinality({i \in 1..Len(requestTimestamps[t]) :
                    now - requestTimestamps[t][i] < PeriodOf(t)})
        < MaxRequestsOf(t)

\* C5: a rate-limiter call writes only its own category's log, and a call
\* whose own log is below its limit proceeds without waiting, whatever is
\* suspended in other categories
C5_CategoryIsolation ==
    [][\A c \in Callers :
        /\ (Calls(c) \/ (pc[c] = "sleeping" /\ pc'[c] = "awaitApi"))
           => \A t \in ApiTypes \ {call'[c].path[2]} :
                 requestTimestamps'[t] = requestTimestamps[t]
        /\ (Calls(c) /\ C5_BelowLimit(call'[c].path[2]))
           => pc'[c] = "awaitApi" /\ ~call'[c].waited]_vars

\* an inventory call was sent without waiting after it entered the limiter
\* while a reports call was suspended
C5_Witness ==
    \E c, d \in Callers :
        /\ pc[c] = "sleeping"
        /\ call[c].path = PathReports
        /\ pc[d] = "awaitApi"
        /\ call[d].path = PathInventory
        /\ ~call[d].waited
        /\ call[d].enteredAt > call[c].enteredAt
        /\ call[d].enteredAt < call[c].wakeAt

-----------------------------------------------------------------------------
(* Claims about the executor *)

\* C6: however the token exchange, the credential resolution, the rate-limit
\* wait and the network call end, spApiRequest hands its caller an envelope;
\* it never rejects
C6_NoFailureEscapes ==
    \A c \in Callers :
        pc[c] = "returning"
        => /\ result[c].returned
           /\ result[c].success \in BOOLEAN
           /\ (last[c].cause \in {"token", "sts", "network"}
               => ~result[c].success)

\* the AssumeRole fetch was rejected inside getSTSCredentials and the caller
\* still gets an envelope
C6_Witness ==
    /\ pc["a"] = "returning"
    /\ last["a"].cause = "sts"
    /\ result["a"].returned
    /\ ~result["a"].success

\* C7: a non-2xx answer of the target API yields success = false, statusCode
\* = the status, error = the raw body text (or 'HTTP <status>' for an empty
\* body) and no data
C7_UpstreamError ==
    \A c \in Callers :
        (/\ pc[c] = "returning"
         /\ last[c].cause = "response"
         /\ (last[c].status < 200 \/ last[c].status > 299))
        => /\ result[c].success = FALSE
           /\ result[c].statusCode = last[c].status
           /\ result[c].error =
                IF last[c].text = "" THEN "HTTP " \o ToString(last[c].status)
                ELSE last[c].text
           /\ result[c].data = Undefined

\* the 404 with body {"errors":[{"message":"not found"}]} is being returned
C7_Witness ==
    /\ pc["a"] = "returning"
    /\ last["a"].cause = "response"
    /\ last["a"].status = 404
    /\ last["a"].text = BodyNotFound
    /\ result["a"].error = BodyNotFound
    /\ result["a"].statusCode = 404

\* C8: a failed token exchange or a rejected fetch of the target API yields
\* success = false with an error message and no statusCode
C8_TransportAndAuthFailure ==
    \A c \in Callers :
        (pc[c] = "returning" /\ last[c].cause \in {"token", "network"})
        => /\ result[c].success = FALSE
           /\ result[c].error # Undefined
           /\ result[c].error # ""
           /\ result[c].statusCode = StatusUndefined
           /\ result[c].data = Undefined

\* the identity provider rejected the exchange: the envelope carries the
\* error of getAccessToken and no status
C8_Witness ==
    /\ pc["a"] = "returning"
    /\ last["a"].cause = "token"
    /\ result["a"].error = "Failed to refresh token: {\"error\":\"invalid_grant\"}"
    /\ result["a"].statusCode = StatusUndefined

\* C9: one spApiRequest call sends at most one request to the target API and
\* at most one refresh exchange
C9_NoRetries ==
    \A c \in Callers :
        /\ call[c].tokenFetches <= 1
        /\ call[c].apiFetches <= 1
        /\ last[c].tokenFetches <= 1
        /\ last[c].apiFetches <= 1

-----------------------------------------------------------------------------
(* Claims about validateCredentials *)

\* the place of key k in the required-keys list
C10_Place(required, k) == CHOOSE i \in 1..Len(required) : required[i] = k

\* the required keys that are unset or empty
C10_Absent(required) ==
    {required[i] : i \in {j \in 1..Len(required) :
                            env[required[j]] \in {Undefined, ""}}}

\* C10: missing is exactly the required keys that are unset or empty, in the
\* order of the required-keys list; valid holds iff missing is empty; with
\* only REFRESH_TOKEN and SELLER_ID absent the result is
\* {valid: false, missing: ["REFRESH_TOKEN", "SELLER_ID"]}
C10_ValidationCompleteness ==
    validation.done =>
        LET required == RequiredKeys(authModule)
            missing == validation.missing
        IN  /\ {missing[i] : i \in 1..Len(missing)} = C10_Absent(required)
            /\ \A i, j \in 1..Len(missing) :
                  i < j => C10_Place(required, missing[i])
                             < C10_Place(required, missing[j])
            /\ validation.valid = (missing = <<>>)
            /\ C10_Absent(required) = {"REFRESH_TOKEN", "SELLER_ID"}
               => /\ missing = <<"REFRESH_TOKEN", "SELLER_ID">>
                  /\ validation.valid = FALSE

\* REFRESH_TOKEN is empty and SELLER_ID unset, every other key is set
C10_Witness ==
    /\ validation.done
    /\ env["REFRESH_TOKEN"] = ""
    /\ env["SELLER_ID"] = Undefined
    /\ \A k \in EnvKeys \ {"REFRESH_TOKEN", "SELLER_ID"} : env[k] = "set"
    /\ validation = [done |-> TRUE, valid |-> FALSE,
                     missing |-> <<"REFRESH_TOKEN", "SELLER_ID">>]

-----------------------------------------------------------------------------
(* Claims about getSTSCredentials and checkRateLimit as callees *)

\* the call ended inside getSTSCredentials: its AssumeRole fetch was rejected,
\* or the token exchange it sent itself (the call's second) failed
C11_RejectedInGetSTSCredentials(c) ==
    \/ last[c].cause = "sts"
    \/ last[c].cause = "token" /\ last[c].tokenFetches = 2

\* C11: getSTSCredentials never rejects, whatever the configuration and
\* whatever the token exchange and the AssumeRole exchange answer
C11_CredentialsNeverFail ==
    \A c \in Callers :
        pc[c] = "returning" => ~C11_RejectedInGetSTSCredentials(c)

\* C12: checkRateLimit never raises, for a known or unknown category, and the
\* suspension it asks for is longer than 0 ms and no longer than the
\* category's period
C12_LimiterNeverFails ==
    \A c \in Callers :
        /\ pc[c] = "returning" => last[c].cause # "limiter"
        /\ pc[c] = "sleeping"
           => /\ call[c].wakeAt - call[c].enteredAt > 0
              /\ call[c].wakeAt - call[c].enteredAt <= PeriodOf(CategoryOf(c))

\* C13: when spApiRequest issues the request to the target API, the token it
\* carries satisfies now < expiresAt - 60000 ms
C13_TokenFreshAtUse ==
    [][\A c \in Callers :
        (pc[c] # "awaitApi" /\ pc'[c] = "awaitApi")
        => now' < call'[c].tokenExpiresAt - 60000]_vars

-----------------------------------------------------------------------------
(* Claims about the route handlers *)

\* a required configuration key is missing
C14_ConfigurationMissing ==
    ~ValidateCredentials(env, RequiredKeys(authModule)).valid

\* C14: with a required key missing, no request is sent to the identity
\* provider or the target API, and the handler answers with the structured
\* result that lists the missing keys
C14_PreFlight ==
    C14_ConfigurationMissing =>
        \A c \in Callers :
            /\ pc[c] \notin {"awaitToken", "awaitStsToken", "awaitSts",
                             "awaitApi", "awaitDebugToken"}
            /\ pc[c] = "responding"
               => /\ "missing" \in DOMAIN response[c].body
                  /\ response[c].body.missing =
                        ValidateCredentials(env, RequiredKeys(authModule)).missing

-----------------------------------------------------------------------------
(* Claims about the executor's steps *)

\* C16: a 2xx answer of the target API yields success = true, statusCode = the
\* status and data = the parsed body, or data undefined when the body is not
\* JSON
C16_SuccessMapping ==
    \A c \in Callers :
        (/\ pc[c] = "returning"
         /\ last[c].cause = "response"
         /\ last[c].status >= 200
         /\ last[c].status <= 299)
        => /\ result[c].success = TRUE
           /\ result[c].statusCode = last[c].status
           /\ result[c].error = Undefined
           /\ last[c].text = BodyPayload => result[c].data = "object{payload}"
           /\ last[c].text \in {"", BodyHtml} => result[c].data = Undefined

\* a 204 with an empty body is being returned as a success without data
C16_Witness ==
    /\ pc["a"] = "returning"
    /\ last["a"].cause = "response"
    /\ last["a"].status = 204
    /\ last["a"].text = ""
    /\ result["a"].success
    /\ result["a"].data = Undefined

\* the place of a step among the steps of a call, 0 when it has not happened
C17_Place(steps, name) ==
    IF \E i \in 1..Len(steps) : steps[i] = name
    THEN CHOOSE i \in 1..Len(steps) : steps[i] = name
    ELSE 0

\* C17: in every call the rate limiter is passed before the access token is
\* requested, the token before the signing credentials, and those before the
\* network call
C17_StepOrder ==
    \A c \in Callers :
        pc[c] = "awaitApi"
        => LET s == call[c].steps
           IN  /\ C17_Place(s, "checkRateLimit") < C17_Place(s, "getAccessToken")
               /\ C17_Place(s, "getAccessToken")
                    < C17_Place(s, "getSTSCredentials")
               /\ C17_Place(s, "getSTSCredentials") < C17_Place(s, "fetch")

\* C18: the timestamp a call appends to its category's log is the time at
\* which it proceeds: after a wait, the post-wait time
C18_PostWaitTimestamp ==
    [][\A c \in Callers :
        (pc[c] = "sleeping" /\ pc'[c] = "awaitApi")
        => LET log == requestTimestamps'[CategoryOf(c)]
           IN  log[Len(log)] = now']_vars

\* C19: no two reports calls proceed past the rate limiter within 60 seconds
\* of each other
C19_ReportsPerMinute ==
    \A i, j \in 1..Len(proceeded["reports"]) :
        i < j => proceeded["reports"][j] - proceeded["reports"][i] >= 60000

\* C20: the request is signed only when the signing credentials are
\* non-empty; with empty credentials it is sent with the content-type and
\* access-token headers alone
C20_ConditionalSigning ==
    \A c \in Callers :
        pc[c] = "awaitApi"
        => IF /\ Truthy(call[c].credentials.accessKeyId)
              /\ Truthy(call[c].credentials.secretAccessKey)
           THEN "Authorization" \in call[c].headers
           ELSE call[c].headers = {"Content-Type", "x-amz-access-token"}

-----------------------------------------------------------------------------
(* Claims about the rate limiter's categories and logs *)

\* C21: a getInventorySummaries call (path /fba/inventory/v1/summaries) is
\* throttled at the inventory rate: no more than 2 of them proceed within
\* 1000 ms
C21_InventoryFacadeRate ==
    \A i \in 1..Len(proceeded[ApiType(PathFbaInventory)]) :
        Cardinality(ProceededIn(ApiType(PathFbaInventory),
                                proceeded[ApiType(PathFbaInventory)][i],
                                RATE_LIMITS["inventory"].period))
            * Scale <= RATE_LIMITS["inventory"].requests

\* C22: the entries of every category's log are in non-decreasing order
C22_LogOrdered ==
    \A t \in ApiTypes : \A i, j \in 1..Len(requestTimestamps[t]) :
        i < j => requestTimestamps[t][i] <= requestTimestamps[t][j]

\* C28: a category's log never holds more entries than the category's
\* maxRequests
C28_LogBounded ==
    \A t \in ApiTypes : Len(requestTimestamps[t]) <= MaxRequestsOf(t)

-----------------------------------------------------------------------------
(* Claims about failed exchanges *)

\* C24: when the identity provider answers the refresh exchange with a
\* non-success status, getAccessToken fails with an error whose message
\* carries the provider's body, and no token is returned: the call ends
\* without a request to the target API
C24_RefreshRejection ==
    \A c \in Callers :
        (/\ pc[c] = "returning"
         /\ last[c].cause = "token"
         /\ last[c].idp.kind = "status")
        => /\ result[c].error = "Failed to refresh token: " \o last[c].idp.text
           /\ result[c].success = FALSE
           /\ result[c].data = Undefined
           /\ last[c].apiFetches = 0

\* the provider rejected the exchange with the body {"error":"invalid_grant"}
C24_Witness ==
    /\ pc["a"] = "returning"
    /\ last["a"].cause = "token"
    /\ last["a"].idp.kind = "status"
    /\ last["a"].idp.text = "{\"error\":\"invalid_grant\"}"
    /\ last["a"].tokenFetches = 1

\* C25: the AssumeRole exchange is attempted only with a role identifier
\* configured, and when it fails (non-success status or rejected fetch)
\* getSTSCredentials returns the static key pair of the configuration with no
\* sessionToken
C25_ExchangeFallback ==
    \A c \in Callers :
        /\ (call[c].stsFetches > 0 \/ last[c].stsFetches > 0)
           => Truthy(env["AWS_ROLE_ARN"])
        /\ pc[c] = "returning" => last[c].sts # "throw"
        /\ (pc[c] \in {"sleeping", "awaitApi"} /\ call[c].sts = "status")
           => call[c].credentials =
                [accessKeyId |-> env["AWS_ACCESS_KEY_ID"],
                 secretAccessKey |-> env["AWS_SECRET_ACCESS_KEY"],
                 sessionToken |-> Undefined]

\* the answer a step of caller c got from the identity provider
C27_Answer(c) == IF pc'[c] = "returning" THEN last'[c].idp ELSE call'[c].idp

\* C27: a refresh exchange that returns a non-success status or throws leaves
\* cachedToken as it was; the cache changes only by a successful exchange,
\* which replaces the entry as a whole
C27_FailedRefreshFrame ==
    [][/\ \A c \in Callers :
            (/\ pc[c] \in {"awaitToken", "awaitStsToken"}
             /\ pc'[c] # pc[c]
             /\ C27_Answer(c).kind # "ok")
            => cachedToken' = cachedToken
       /\ cachedToken' # cachedToken
          => \E c \in Callers :
                /\ pc[c] \in {"awaitToken", "awaitStsToken"}
                /\ C27_Answer(c).kind = "ok"
                /\ cachedToken' =
                     [accessToken |-> C27_Answer(c).accessToken,
                      expiresAt |-> now + C27_Answer(c).expiresIn * 1000,
                      present |-> TRUE]]_vars

\* a refresh failed while an earlier token was cached: the entry is still
\* there
C27_Witness ==
    /\ pc["a"] = "returning"
    /\ last["a"].cause = "token"
    /\ last["a"].idp.kind \in {"status", "throw"}
    /\ cachedToken.present
    /\ calls >= 2

\* C29: a call that fails at getAccessToken or at credential resolution
\* leaves every category's log as it was and performs no wait
C29_AuthFailureTakesNoSlot ==
    [][\A c \in Callers :
        (/\ pc'[c] # pc[c]
         /\ \/ pc'[c] \in {"awaitToken", "awaitStsToken", "awaitSts"}
            \/ pc'[c] = "returning" /\ last'[c].cause \in {"token", "sts"})
        => /\ requestTimestamps' = requestTimestamps
           /\ proceeded' = proceeded
           /\ pc'[c] = "returning" => ~last'[c].waited]_vars

\* a call failed at its token exchange after an earlier call had left its
\* timestamp in the reports log
C29_Witness ==
    /\ pc["a"] = "returning"
    /\ last["a"].cause \in {"token", "sts"}
    /\ ~last["a"].waited
    /\ Len(requestTimestamps["reports"]) = 1
    /\ calls >= 2

\* C30: in every envelope, success = true implies a 2xx statusCode and no
\* error; success = false implies no data and a non-empty error; statusCode is
\* absent only when success = false
C30_EnvelopeWellFormed ==
    \A c \in Callers :
        pc[c] = "returning"
        => /\ result[c].returned
           /\ result[c].success
              => /\ result[c].statusCode >= 200
                 /\ result[c].statusCode <= 299
                 /\ result[c].error = Undefined
           /\ ~result[c].success
              => /\ result[c].data = Undefined
                 /\ result[c].error # Undefined
                 /\ result[c].error # ""
           /\ result[c].statusCode = StatusUndefined => ~result[c].success

\* a 404 with an empty body is being returned with the error 'HTTP 404'
C30_Witness ==
    /\ pc["a"] = "returning"
    /\ last["a"].cause = "response"
    /\ last["a"].status = 404
    /\ last["a"].text = ""
    /\ result["a"].error = "HTTP 404"

-----------------------------------------------------------------------------
(* Claims about concurrent refreshes *)

\* the answer a step of caller c got from the identity provider
C23_Answer(c) == IF pc'[c] = "returning" THEN last'[c].idp ELSE call'[c].idp

\* C23: every caller that invokes getAccessToken while no valid token is
\* cached sends its own refresh exchange, also while another caller's
\* exchange is in flight, and every exchange that completes successfully
\* writes its token to the cache, so that the cache holds the token of the
\* exchange that completed last
C23_NoSingleFlight ==
    [][\A c \in Callers :
        /\ (/\ pc[c] = "starting"
            /\ pc'[c] # "starting"
            /\ ~(cachedToken.present
                 /\ cachedToken.expiresAt > now + SafetyMargin))
           => /\ pc'[c] = "awaitToken"
              /\ call'[c].tokenFetches = 1
              /\ \A d \in Callers \ {c} :
                    pc[d] = "awaitToken"
                    => pc'[d] = "awaitToken" /\ call'[d].tokenFetches = 1
        /\ (/\ pc[c] = "awaitToken"
            /\ pc'[c] # "awaitToken"
            /\ C23_Answer(c).kind = "ok")
           => /\ cachedToken'.present
              /\ cachedToken'.accessToken = C23_Answer(c).accessToken
              /\ cachedToken'.expiresAt = now + C23_Answer(c).expiresIn * 1000]_vars

\* the two calls of the dashboard handler each sent an exchange; a's was
\* answered first with one token, b's last with another, and the cache holds
\* b's
C23_Witness ==
    /\ route["a"].handler = "dashboard"
    /\ pc["a"] = "awaitApi" /\ pc["b"] = "awaitApi"
    /\ call["a"].tokenFetches = 1 /\ call["b"].tokenFetches = 1
    /\ call["a"].accessToken = "Atza|1"
    /\ call["b"].accessToken = "Atza|2"
    /\ call["a"].tokenExpiresAt > now
    /\ cachedToken.accessToken = "Atza|2"

-----------------------------------------------------------------------------
(* Claims about buildQueryString *)

\* the place of key among the properties of params in the order of creation
C26_Place(params, key) ==
    CHOOSE i \in 1..Len(params) : params[i].key = key

\* key k1 was created before key k2
C26_InsertionBefore(params, k1, k2) ==
    C26_Place(params, k1) < C26_Place(params, k2)

\* key k1 comes before key k2 in the order of own property keys: array
\* indices in ascending order, then the other keys in the order of creation
C26_OwnKeyBefore(params, k1, k2) ==
    IF IsArrayIndex(k1) /\ IsArrayIndex(k2) THEN IndexOf(k1) < IndexOf(k2)
    ELSE IF IsArrayIndex(k1) THEN TRUE
    ELSE IF IsArrayIndex(k2) THEN FALSE
    ELSE C26_Place(params, k1) < C26_Place(params, k2)

\* the pairs emitted for key
C26_PairsFor(entries, key) ==
    LET isMine(e) == e[1] = key IN SelectSeq(entries, isMine)

\* what buildQueryString made of the params record, with the keys in the
\* order Before: every call returned the same string; no pair is emitted for
\* an undefined value, one for a string, one per element for an array; the
\* string is '?' and the serialised pairs, or empty when no pair remains
C26_Built(Before(_, _, _)) ==
    LET params == query.params
        entries == query.entries
        outs == query.outs
    IN  Len(outs) > 0
        => /\ \A i, j \in 1..Len(outs) : outs[i] = outs[j]
           /\ \A i \in 1..Len(params) :
                C26_PairsFor(entries, params[i].key) =
                    CASE params[i].value.type = "undefined" -> <<>>
                      [] params[i].value.type = "string" ->
                            << <<params[i].key, params[i].value.chars>> >>
                      [] OTHER ->
                            [n \in 1..Len(params[i].value.items) |->
                                <<params[i].key, params[i].value.items[n]>>]
           /\ \A i, j \in 1..Len(entries) :
                (i < j /\ entries[i][1] # entries[j][1])
                => Before(params, entries[i][1], entries[j][1])
           /\ outs[1] = IF entries = <<>> THEN ""
                        ELSE "?" \o Serialize(entries)
           /\ (\A i \in 1..Len(params) : params[i].value.type = "undefined")
              => outs[1] = ""

\* C26 (as amended): buildQueryString yields the same string on every call
\* with the same params record, with the keys in the order of the record's
\* own property keys (array-index keys ascending, then the others in
\* insertion order) and array values expanded to one pair per element, emits
\* no key whose value is undefined, and yields the empty string when no
\* defined value remains
C26_QueryStringOwnKeyOrder == C26_Built(C26_OwnKeyBefore)

\* C26 (as stated): the same, with the keys in insertion order
C26_QueryStringInsertionOrder == C26_Built(C26_InsertionBefore)

\* buildQueryString was called twice on a record whose key '2' was created
\* before its key '1', and which has an array and an undefined value
C26_Witness ==
    /\ Len(query.outs) = 2
    /\ Len(query.params) = 3
    /\ query.params[1].key = <<"2">>
    /\ query.params[1].value.type = "array"
    /\ Len(query.params[1].value.items) = 2
    /\ query.params[2].key = <<"1">>
    /\ query.params[2].value.type = "string"
    /\ query.params[3].value.type = "undefined"

====
